---- MODULE Spec2Model ----
(***************************************************************************)
(* A model of the seats.aero flight finder: the currency-rate lookup with  *)
(* its process-wide cache, the construction of a FlightResult from a raw   *)
(* availability record, and the filtering and sorting of the results.      *)
(*                                                                         *)
(* Numbers.  Python floats are modelled as exact fixed-point integers:     *)
(*   - a conversion rate r is the integer r * 10000 (0.72 is 7200);        *)
(*   - an amount of USD (total_taxes, a cash price) is the integer         *)
(*     amount * 1000000, so that (cents / 100) * rate is cents * rate      *)
(*     exactly;                                                            *)
(*   - a CPP value is the integer cpp * 100 (0.74 is 74).                  *)
(* Binary floating-point rounding error is not modelled.                   *)
(*                                                                         *)
(* Dates.  The ISO date string of a record is held as its day number       *)
(* (2025-06-01 is 20250601) and the empty string as 0: the order of the    *)
(* numbers is the order in which Python compares the strings.              *)
(***************************************************************************)
EXTENDS Integers, Sequences, FiniteSets, TLC

VARIABLES
    cache,      \* _CURRENCY_RATES_CACHE: a function currency -> rate
    lastCall,   \* the latest call of get_usd_conversion_rate and its outcome
    calls,      \* number of calls of get_usd_conversion_rate so far
    liveOk,     \* per currency, the number of live fetches that succeeded
    stderr,     \* kinds of message written to sys.stderr so far
    stdout,     \* kinds of message written to sys.stdout so far
    lastInit,   \* the latest FlightResult(data, cabin) and the object built
    results,    \* the list handed to filter_results / sort_results
    config,     \* self.config: output.nonstop_only, output.sort_by, valuation
    ranked,     \* the list a filter_results / sort_results call returned
    phase,      \* position in main / FlightFinder.run
    sources,    \* search(): the mileage programs to search
    dataList,   \* search(): the items of data_list not yet parsed
    requests,   \* number of GET requests sent to the search endpoint
    exitStatus, \* "running", or the status the process ended with
    table,      \* display_results: the rows of the table printed
    lastCpp,    \* the latest calculate_cpp call: receiver, argument, result
    lookups     \* the latest result of each lookup of credit_cards.py

vars == <<cache, lastCall, calls, liveOk, stderr, stdout, lastInit,
          results, config, ranked, phase,
          sources, dataList, requests, exitStatus, table, lastCpp, lookups>>

rateVars == <<cache, lastCall, calls, liveOk, stderr>>
rankVars == <<results, config, ranked, phase>>
runVars == <<sources, dataList, requests, exitStatus, table>>
pureVars == <<lastCpp, lookups>>

----------------------------------------------------------------------------
(* Bounds of the model *)

MaxCalls == 4

\* Longest list of offers handed to filter_results / sort_results.
MaxOffers == 3

----------------------------------------------------------------------------
(* Currency rates: get_usd_conversion_rate *)

\* 1.0 in the fixed-point representation of rates.
RateOne == 10000

\* Currency codes seen in TaxesCurrency: USD, a code of the fallback table,
\* and a code that is not in it.
Currencies == {"USD", "CAD", "CHF"}

\* fallback_rates of the except branch.
fallback_rates ==
    [c \in {"CAD", "EUR", "GBP", "JPY", "AUD", "NZD"} |->
        CASE c = "CAD" -> 7200
          [] c = "EUR" -> 10800
          [] c = "GBP" -> 12700
          [] c = "JPY" -> 67
          [] c = "AUD" -> 6500
          [] c = "NZD" -> 6000]

\* fallback_rates.get(currency, 1.0)
FallbackRate(currency) ==
    IF currency \in DOMAIN fallback_rates THEN fallback_rates[currency]
    ELSE RateOne

\* What requests.get / raise_for_status / response.json can produce: an
\* exception, a body without rates.USD, or a body whose rates.USD is a number
\* (the upstream may report anything, zero and negative numbers included).
LiveRates == {-7300, 0, 7300, 7400}

LiveResponses ==
    {[raised |-> TRUE, hasUsd |-> FALSE, usd |-> 0],
     [raised |-> FALSE, hasUsd |-> FALSE, usd |-> 0]}
    \cup {[raised |-> FALSE, hasUsd |-> TRUE, usd |-> r] : r \in LiveRates}

\* data.get("rates", {}).get("USD", 1.0)
ResponseRate(resp) == IF resp.hasUsd THEN resp.usd ELSE RateOne

NoCall == [currency |-> "", outcome |-> "none", rate |-> 0, fetched |-> FALSE]

\* A variant of the lookup that stores the fallback rate in the cache.
LookupCachingFallback(currency, c, resp) ==
    IF currency = "USD"
    THEN [rate |-> RateOne, cache |-> c, outcome |-> "usd", fetched |-> FALSE]
    ELSE IF currency \in DOMAIN c
    THEN [rate |-> c[currency], cache |-> c, outcome |-> "hit", fetched |-> FALSE]
    ELSE IF ~resp.raised
    THEN [rate |-> ResponseRate(resp),
          cache |-> (currency :> ResponseRate(resp)) @@ c,
          outcome |-> "live", fetched |-> TRUE]
    ELSE [rate |-> FallbackRate(currency),
          cache |-> (currency :> FallbackRate(currency)) @@ c,
          outcome |-> "fallback", fetched |-> TRUE]

\* A variant of the lookup that consults the cache before the USD test.
LookupCacheBeforeUsd(currency, c, resp) ==
    IF currency \in DOMAIN c
    THEN [rate |-> c[currency], cache |-> c, outcome |-> "hit", fetched |-> FALSE]
    ELSE IF ~resp.raised
    THEN [rate |-> ResponseRate(resp),
          cache |-> (currency :> ResponseRate(resp)) @@ c,
          outcome |-> "live", fetched |-> TRUE]
    ELSE [rate |-> FallbackRate(currency), cache |-> c,
          outcome |-> "fallback", fetched |-> TRUE]

\* A variant of the lookup that never reads the cache.
LookupAlwaysFetching(currency, c, resp) ==
    IF currency = "USD"
    THEN [rate |-> RateOne, cache |-> c, outcome |-> "usd", fetched |-> FALSE]
    ELSE IF ~resp.raised
    THEN [rate |-> ResponseRate(resp),
          cache |-> (currency :> ResponseRate(resp)) @@ c,
          outcome |-> "live", fetched |-> TRUE]
    ELSE [rate |-> FallbackRate(currency), cache |-> c,
          outcome |-> "fallback", fetched |-> TRUE]

\* get_usd_conversion_rate(currency) as a function of the cache c and of what
\* the live source answers, resp: the rate returned, the cache afterwards,
\* the branch taken and whether requests.get was called.
Lookup(currency, c, resp) ==
    IF currency = "USD"
    THEN [rate |-> RateOne, cache |-> c, outcome |-> "usd", fetched |-> FALSE]
    ELSE IF currency \in DOMAIN c
    THEN [rate |-> c[currency], cache |-> c, outcome |-> "hit", fetched |-> FALSE]
    ELSE IF ~resp.raised
    THEN [rate |-> ResponseRate(resp),
          cache |-> (currency :> ResponseRate(resp)) @@ c,
          outcome |-> "live", fetched |-> TRUE]
    ELSE [rate |-> FallbackRate(currency), cache |-> c,
          outcome |-> "fallback", fetched |-> TRUE]

\* The effect of one call of get_usd_conversion_rate on the module state.
ApplyLookup(currency, resp) ==
    LET r == Lookup(currency, cache, resp) IN
    /\ cache' = r.cache
    /\ lastCall' = [currency |-> currency, outcome |-> r.outcome,
                    rate |-> r.rate, fetched |-> r.fetched]
    /\ calls' = calls + 1
    /\ liveOk' = IF r.outcome = "live"
                 THEN [liveOk EXCEPT ![currency] = @ + 1]
                 ELSE liveOk
    /\ stderr' = IF r.outcome = "fallback"
                 THEN stderr \cup {"rate_warning"}
                 ELSE stderr

GetUsdConversionRate(currency) ==
    /\ calls < MaxCalls
    /\ \E resp \in LiveResponses : ApplyLookup(currency, resp)
    /\ UNCHANGED <<stdout, lastInit, rankVars, runVars, pureVars>>

----------------------------------------------------------------------------
(* Raw availability records and FlightResult.__init__ *)

\* A raw record is a function from field names to values; a field the
\* upstream left out is not in its domain.  data.get(key, default):
Get(data, key, default) == IF key \in DOMAIN data THEN data[key] ELSE default

\* The cabin argument when it is None.
NoneCabin == "<None>"

Cabins == {"economy", "premium", "business", "first", NoneCabin}

\* A variant of the prefix table in which business reads the economy fields.
CabinPrefixAlwaysY(cabin) ==
    CASE cabin = "economy" -> "Y"
      [] cabin = "premium" -> "W"
      [] cabin = "business" -> "Y"
      [] cabin = "first" -> "F"
      [] OTHER -> "Y"

\* cabin_map.get(cabin, "Y")
CabinPrefix(cabin) ==
    CASE cabin = "economy" -> "Y"
      [] cabin = "premium" -> "W"
      [] cabin = "business" -> "J"
      [] cabin = "first" -> "F"
      [] OTHER -> "Y"

\* taxes_cents / 100 if taxes_cents else 0.  An amount in the original
\* currency is held as a whole number of hundredths, so n / 100 is held as n.
TaxesInCurrency(taxes_cents) == IF taxes_cents # 0 THEN taxes_cents ELSE 0

\* The object FlightResult.__init__ builds from data and cabin, given the
\* conversion rate it obtained (RateOne on the USD branch, where the amount is
\* stored as it is).
NewFlightResult(data, cabin, rate) ==
    LET route == Get(data, "Route", <<>>)
        prefix == CabinPrefix(cabin)
        taxes_cents == Get(data, prefix \o "TotalTaxesRaw", 0)
        is_direct == Get(data, prefix \o "DirectRaw", FALSE)
    IN [source |-> Get(route, "Source", "Unknown"),
        miles_cost |-> Get(data, prefix \o "MileageCostRaw", 0),
        total_taxes |-> TaxesInCurrency(taxes_cents) * rate,
        taxes_currency |-> "USD",
        remaining_seats |-> Get(data, prefix \o "RemainingSeatsRaw", 0),
        cabin |-> IF cabin = NoneCabin THEN "Unknown" ELSE cabin,
        departs_at |-> Get(data, "Date", 0),
        origin_airport |-> Get(route, "OriginAirport", ""),
        destination_airport |-> Get(route, "DestinationAirport", ""),
        carriers |-> Get(data, prefix \o "AirlinesRaw", ""),
        flight_numbers |-> "",
        arrives_at |-> "",
        segments |-> <<>>,
        stops |-> IF is_direct THEN 0 ELSE 1,
        total_duration |-> 0]

NoInit == [done |-> FALSE, data |-> <<>>, cabin |-> NoneCabin,
           offer |-> NewFlightResult(<<>>, NoneCabin, RateOne)]

\* What FlightResult(data, cabin) does to the rate cache, and the object it
\* builds: the rate lookup happens only for a currency other than USD.
FlightResultEffect(data, cabin) ==
    LET original_currency == Get(data, "TaxesCurrency", "USD") IN
    IF original_currency # "USD"
    THEN /\ calls < MaxCalls
         /\ \E resp \in LiveResponses :
              /\ ApplyLookup(original_currency, resp)
              /\ lastInit' =
                   [done |-> TRUE, data |-> data, cabin |-> cabin,
                    offer |-> NewFlightResult(data, cabin,
                                Lookup(original_currency, cache, resp).rate)]
    ELSE /\ UNCHANGED rateVars
         /\ lastInit' = [done |-> TRUE, data |-> data, cabin |-> cabin,
                         offer |-> NewFlightResult(data, cabin, RateOne)]

\* FlightResult(data, cabin)
FlightResultInit(data, cabin) ==
    /\ FlightResultEffect(data, cabin)
    /\ UNCHANGED <<stdout, rankVars, runVars, pureVars>>

\* The fields a cabin-prefixed record carries under one prefix.
PrefixNames == {"MileageCostRaw", "TotalTaxesRaw", "RemainingSeatsRaw",
                "AirlinesRaw", "DirectRaw"}

BundleA == [n \in PrefixNames |->
              CASE n = "MileageCostRaw" -> 60000
                [] n = "TotalTaxesRaw" -> 560
                [] n = "RemainingSeatsRaw" -> 2
                [] n = "AirlinesRaw" -> "UA"
                [] n = "DirectRaw" -> TRUE]

BundleB == [n \in PrefixNames |->
              CASE n = "MileageCostRaw" -> 35000
                [] n = "TotalTaxesRaw" -> 12000
                [] n = "RemainingSeatsRaw" -> 4
                [] n = "AirlinesRaw" -> "NH, UA"
                [] n = "DirectRaw" -> FALSE]

\* A cabin the program reports as unavailable: zero cost, zero taxes, no
\* seats, and no direct flag at all.
BundleZero == [n \in {"MileageCostRaw", "TotalTaxesRaw", "RemainingSeatsRaw"}
                 |-> 0]

\* The fields of bundle b named with the cabin prefix p.
Prefixed(p, b) == [k \in {p \o n : n \in DOMAIN b} |->
                     b[CHOOSE n \in DOMAIN b : p \o n = k]]

RouteOf == [n \in {"Source", "OriginAirport", "DestinationAirport"} |->
              CASE n = "Source" -> "united"
                [] n = "OriginAirport" -> "SFO"
                [] n = "DestinationAirport" -> "NRT"]

\* Route and Date of a record; TaxesCurrency is left out when cur is "".
Common(cur) ==
    LET base == ("Route" :> RouteOf) @@ ("Date" :> 20250601)
    IN IF cur = "" THEN base ELSE ("TaxesCurrency" :> cur) @@ base

\* Cabin-prefixed records: every prefix carries a bundle or nothing.
PrefixedRecords(curs) ==
    {Prefixed("Y", y) @@ Prefixed("W", w) @@ Prefixed("J", j)
       @@ Prefixed("F", f) @@ Common(cur) :
         y \in {<<>>, BundleA, BundleB, BundleZero},
         w \in {<<>>, BundleA},
         j \in {<<>>, BundleA, BundleB, BundleZero},
         f \in {<<>>, BundleB},
         cur \in curs}

\* Flat detailed records: unprefixed fields, taxes in major units (held as
\* hundredths: 560 is 5.60), a true stop count.
FlatFields == {"MileageCost", "TotalTaxes", "Stops", "TotalDuration",
               "Carriers", "FlightNumbers", "DepartsAt", "ArrivesAt"}

FlatRecord(miles, taxes, nstops, cur) ==
    [n \in FlatFields |->
       CASE n = "MileageCost" -> miles
         [] n = "TotalTaxes" -> taxes
         [] n = "Stops" -> nstops
         [] n = "TotalDuration" -> 615
         [] n = "Carriers" -> "UA"
         [] n = "FlightNumbers" -> "UA837"
         [] n = "DepartsAt" -> 20250601
         [] n = "ArrivesAt" -> 20250602]
    @@ Common(cur)

FlatRecords == {FlatRecord(60000, 560, 0, "USD"),
                FlatRecord(35000, 12000, 2, "CAD"),
                FlatRecord(0, 0, 1, "")}

IsFlat(data) ==
    /\ FlatFields \subseteq DOMAIN data
    /\ \A p \in {"Y", "W", "J", "F"}, n \in PrefixNames :
         p \o n \notin DOMAIN data

\* Inputs of FlightResult in the two specifications.
RawRecords == PrefixedRecords({"", "USD", "CAD"}) \cup FlatRecords

SmallRecords ==
    {Prefixed("Y", BundleA) @@ Common("USD"),
     Prefixed("Y", BundleB) @@ Common(""),
     Prefixed("Y", BundleB) @@ Common("CHF"),
     Prefixed("Y", BundleA) @@ Common("CAD")}

----------------------------------------------------------------------------
(* FlightResult.calculate_cpp *)

\* n / d rounded to the nearest integer, ties to the even one (d > 0): what
\* round(x, 2) does on the exact quotient.
RoundHalfEven(n, d) ==
    LET q == n \div d
        r == n % d
    IN IF 2 * r < d THEN q
       ELSE IF 2 * r > d THEN q + 1
       ELSE IF q % 2 = 0 THEN q ELSE q + 1

\* The value of calculate_cpp when it returns None.
CppNone == [ok |-> FALSE, val |-> 0]

\* A variant of calculate_cpp that takes a price of 0 for a missing one.
CalculateCppTruthy(x, cash) ==
    IF "usd" \notin DOMAIN cash \/ cash["usd"] = 0 \/ x.miles_cost = 0
    THEN CppNone
    ELSE [ok |-> TRUE,
          val |-> RoundHalfEven(cash["usd"] - x.total_taxes,
                                x.miles_cost * 100)]

\* calculate_cpp(cash_price): cash is a function with the key "usd" when a
\* cash price is passed and <<>> when None is.  The result is in hundredths
\* of a cent: ((cash - taxes) / miles) * 100 rounded to two decimals.
CalculateCpp(x, cash) ==
    IF "usd" \notin DOMAIN cash \/ x.miles_cost = 0
    THEN CppNone
    ELSE [ok |-> TRUE,
          val |-> RoundHalfEven(cash["usd"] - x.total_taxes,
                                x.miles_cost * 100)]

----------------------------------------------------------------------------
(* FlightFinder.filter_results and FlightFinder.sort_results *)

\* sorted(seq, key=...): the builtin's contract.  It compares keys with <
\* only and is stable: an element goes after every element whose key is
\* smaller and after every earlier element whose key is not greater.
\* lt[i, j] is "the key of seq[i] is less than the key of seq[j]".
Sorted(seq, lt) ==
    LET n == Len(seq)
        pos(i) == 1 + Cardinality({j \in 1..n :
                        \/ lt[j, i]
                        \/ j < i /\ ~lt[i, j]})
    IN [k \in 1..n |-> seq[CHOOSE i \in 1..n : pos(i) = k]]

\* A variant of the miles order that compares the miles only.
MilesLtNoTieBreak(a, b) == a.miles_cost < b.miles_cost

\* key=lambda x: (x.miles_cost, x.total_taxes), compared as tuples
MilesLt(a, b) ==
    \/ a.miles_cost < b.miles_cost
    \/ a.miles_cost = b.miles_cost /\ a.total_taxes < b.total_taxes

\* A variant of the total-cost key that does not divide the miles by 100.
TotalCostKeyUndivided(x) == x.miles_cost * 1000000 + x.total_taxes

\* key=lambda x: (x.miles_cost / 100) + x.total_taxes, in millionths of USD
TotalCostKey(x) == x.miles_cost * 10000 + x.total_taxes

\* key=lambda x: x.miles_cost + x.total_taxes, in millionths of USD
MilesPlusTaxesKey(x) == x.miles_cost * 1000000 + x.total_taxes

\* key=lambda x: x.calculate_cpp(cash_price) or 0
CppKey(x, cash) ==
    LET cpp == CalculateCpp(x, cash)
    IN IF cpp.ok /\ cpp.val # 0 THEN cpp.val ELSE 0

\* self.config.get("valuation", {}).get("baseline_cash_price"), as the
\* argument of calculate_cpp: <<>> is None.
CashPrice(cfg) ==
    LET valuation == Get(cfg, "valuation", <<>>)
    IN IF "baseline_cash_price" \in DOMAIN valuation
       THEN [k \in {"usd"} |-> valuation["baseline_cash_price"]]
       ELSE <<>>

\* "if cash_price:" is false for None and for a price of zero.
Truthy(cash) == "usd" \in DOMAIN cash /\ cash["usd"] # 0

\* A variant of the filter that lets offers with one stop through.
FilterResultsUpToOneStop(rs, cfg) ==
    IF Get(Get(cfg, "output", <<>>), "nonstop_only", FALSE)
    THEN SelectSeq(rs, LAMBDA r : r.stops <= 1)
    ELSE rs

\* filter_results(results)
FilterResultsOp(rs, cfg) ==
    IF Get(Get(cfg, "output", <<>>), "nonstop_only", FALSE)
    THEN SelectSeq(rs, LAMBDA r : r.stops = 0)
    ELSE rs

\* sort_results(results): the list returned, and whether the warning about a
\* missing baseline_cash_price was printed.
SortResultsOp(rs, cfg) ==
    LET sort_by == Get(Get(cfg, "output", <<>>), "sort_by", "total_cost")
        cash == CashPrice(cfg)
        I == DOMAIN rs
    IN CASE sort_by = "miles" ->
              [out |-> Sorted(rs, [i, j \in I |-> MilesLt(rs[i], rs[j])]),
               warned |-> FALSE]
         [] sort_by = "total_cost" ->
              [out |-> Sorted(rs, [i, j \in I |->
                              TotalCostKey(rs[i]) < TotalCostKey(rs[j])]),
               warned |-> FALSE]
         [] sort_by = "cpp" /\ Truthy(cash) ->
              \* reverse=True: descending, equal keys in input order
              [out |-> Sorted(rs, [i, j \in I |->
                              CppKey(rs[i], cash) > CppKey(rs[j], cash)]),
               warned |-> FALSE]
         [] sort_by = "cpp" /\ ~Truthy(cash) ->
              [out |-> Sorted(rs, [i, j \in I |->
                       MilesPlusTaxesKey(rs[i]) < MilesPlusTaxesKey(rs[j])]),
               warned |-> TRUE]
         [] sort_by = "date" ->
              \* ISO dates compare as strings the way their day numbers do
              [out |-> Sorted(rs, [i, j \in I |->
                              rs[i].departs_at < rs[j].departs_at]),
               warned |-> FALSE]
         [] OTHER -> [out |-> rs, warned |-> FALSE]

\* run(): results = self.filter_results(results)
FilterResults ==
    /\ phase = "searched"
    /\ results' = ranked
    /\ ranked' = FilterResultsOp(ranked, config)
    /\ phase' = "filtered"
    /\ UNCHANGED <<rateVars, stdout, lastInit, config, runVars, pureVars>>

\* run(): results = self.sort_results(results)
SortResults ==
    LET r == SortResultsOp(ranked, config) IN
    /\ phase = "filtered"
    /\ results' = ranked
    /\ ranked' = r.out
    /\ phase' = "sorted"
    /\ stdout' = IF r.warned THEN stdout \cup {"cpp_warning"} ELSE stdout
    /\ UNCHANGED <<rateVars, lastInit, config, runVars, pureVars>>

\* An offer as FlightResult builds it from a cabin-prefixed economy record
\* priced in USD.
Offer(source, miles, taxes_cents, direct, date) ==
    NewFlightResult(
        ("Route" :> [RouteOf EXCEPT !["Source"] = source])
        @@ ("Date" :> date)
        @@ Prefixed("Y", [n \in {"MileageCostRaw", "TotalTaxesRaw", "DirectRaw"}
                            |-> CASE n = "MileageCostRaw" -> miles
                                  [] n = "TotalTaxesRaw" -> taxes_cents
                                  [] n = "DirectRaw" -> direct]),
        "economy", RateOne)

\* Offers with equal and unequal totals, a free one (no CPP), and two that
\* differ in the program only.
OfferPool ==
    {Offer("united", 100, 500, TRUE, 20250603),
     Offer("united", 200, 100, FALSE, 20250601),
     Offer("aeroplan", 100, 200, TRUE, 20250602),
     Offer("aeroplan", 0, 400, FALSE, 0),
     Offer("delta", 200, 100, TRUE, 20250601)}

OfferLists == UNION {[1..n -> OfferPool] : n \in 1..MaxOffers}

\* A configuration key that is absent or set to one of the values.
Optional(key, values) == {<<>>} \cup {key :> v : v \in values}

\* Values of output.sort_by: the four strategies and a name that is none.
SortNames == {"miles", "total_cost", "cpp", "date", "price"}

\* Values of valuation.baseline_cash_price, in millionths of USD.
CashPrices == {0, 3000000}

Configs ==
    {("output" :> (n @@ s)) @@ ("valuation" :> v) :
       n \in Optional("nonstop_only", BOOLEAN),
       s \in Optional("sort_by", SortNames),
       v \in Optional("baseline_cash_price", CashPrices)}

----------------------------------------------------------------------------
(* Specifications *)

RankInit ==
    /\ results = <<>>
    /\ config = <<>>
    /\ ranked = <<>>
    /\ phase = "idle"

\* The process before main() has done anything.
RunInit ==
    /\ sources = <<>>
    /\ dataList = <<>>
    /\ requests = 0
    /\ exitStatus = "running"
    /\ table = <<>>

NoCpp == [done |-> FALSE, x |-> NoInit.offer, cash |-> <<>>, result |-> CppNone]

NotCalled == [called |-> FALSE]

NoLookups ==
    [partners |-> NotCalled, card_name |-> NotCalled,
     airline_name |-> NotCalled, all_cards |-> NotCalled]

PureInit ==
    /\ lastCpp = NoCpp
    /\ lookups = NoLookups

RateInit ==
    /\ cache = <<>>
    /\ lastCall = NoCall
    /\ calls = 0
    /\ liveOk = [c \in Currencies |-> 0]
    /\ stderr = {}
    /\ stdout = {}
    /\ lastInit = NoInit

\* The module after import: an empty rate cache, nothing built or printed.
Init == RateInit /\ RankInit /\ RunInit /\ PureInit

\* Rate lookups, directly and from FlightResult.
Next ==
    \/ \E currency \in Currencies : GetUsdConversionRate(currency)
    \/ \E data \in SmallRecords : FlightResultInit(data, "economy")

Spec == Init /\ [][Next]_vars

\* One item of data_list and the configured cabin, about to be normalized.
InitNormalize ==
    /\ RankInit
    /\ RunInit
    /\ PureInit
    /\ cache = <<>>
    /\ lastCall = NoCall
    /\ calls = 0
    /\ liveOk = [c \in Currencies |-> 0]
    /\ stderr = {}
    /\ stdout = {}
    /\ \E data \in RawRecords, cabin \in Cabins :
         lastInit = [NoInit EXCEPT !.data = data, !.cabin = cabin]

\* The search loop's FlightResult(item, cabin), over the raw record shapes;
\* the same item may come again while the rate cache fills.
NextNormalize == FlightResultInit(lastInit.data, lastInit.cabin)

SpecNormalize == InitNormalize /\ [][NextNormalize]_vars

\* run() after search() returned a non-empty list of offers.
InitRank ==
    /\ RateInit
    /\ RunInit
    /\ PureInit
    /\ results \in OfferLists
    /\ ranked = results
    /\ config \in Configs
    /\ phase = "searched"

NextRank == FilterResults \/ SortResults

SpecRank == InitRank /\ [][NextRank]_vars

\* Arguments of calculate_cpp: offers as FlightResult builds them, and a
\* cash price or None.
CppOffers ==
    {Offer("united", m, t, TRUE, 20250601) :
       m \in {0, 100, 200, 60000}, t \in {0, 300, 500, 560}}

CppCash == {<<>>} \cup {[k \in {"usd"} |-> c] :
                          c \in {0, 3000000, 3250000, 450000000}}

InitCpp ==
    /\ RateInit
    /\ RankInit
    /\ RunInit
    /\ lookups = NoLookups
    /\ \E x \in CppOffers, cash \in CppCash :
         lastCpp = [NoCpp EXCEPT !.x = x, !.cash = cash]

\* x.calculate_cpp(cash)
CalculateCppCall ==
    /\ ~lastCpp.done
    /\ lastCpp' = [lastCpp EXCEPT !.done = TRUE,
                      !.result = CalculateCpp(lastCpp.x, lastCpp.cash)]
    /\ UNCHANGED <<rateVars, stdout, lastInit, rankVars, runVars, lookups>>

NextCpp == CalculateCppCall

SpecCpp == InitCpp /\ [][NextCpp]_vars

----------------------------------------------------------------------------
(* credit_cards.py: the catalog of card programs and its lookups.  A card
   identifier is a sequence of characters, so that str.lower is computed. *)

UpperLetters ==
    <<"A", "B", "C", "D", "E", "F", "G", "H", "I", "J", "K", "L", "M",
      "N", "O", "P", "Q", "R", "S", "T", "U", "V", "W", "X", "Y", "Z">>

LowerLetters ==
    <<"a", "b", "c", "d", "e", "f", "g", "h", "i", "j", "k", "l", "m",
      "n", "o", "p", "q", "r", "s", "t", "u", "v", "w", "x", "y", "z">>

LowerChar(ch) ==
    IF \E i \in DOMAIN UpperLetters : UpperLetters[i] = ch
    THEN LowerLetters[CHOOSE i \in DOMAIN UpperLetters : UpperLetters[i] = ch]
    ELSE ch

\* A variant of str.lower that leaves the text as it is.
LowerKeepingCase(text) == text

\* text.lower()
Lower(text) == [i \in DOMAIN text |-> LowerChar(text[i])]

\* class CreditCard(Enum), in definition order
CreditCard ==
    <<[name |-> "CAPITAL_ONE", value |-> <<"c", "a", "p", "i", "t", "a", "l", "-", "o", "n", "e">>],
      [name |-> "CHASE", value |-> <<"c", "h", "a", "s", "e">>],
      [name |-> "AMEX", value |-> <<"a", "m", "e", "x">>],
      [name |-> "CITI", value |-> <<"c", "i", "t", "i">>],
      [name |-> "BILT", value |-> <<"b", "i", "l", "t">>]>>

\* class AirlineSource(Enum), in definition order
AirlineSource ==
    <<[name |-> "AA", value |-> "aa"],
      [name |-> "AEROPLAN", value |-> "aeroplan"],
      [name |-> "AEROMEXICO", value |-> "aeromexico"],
      [name |-> "ALASKA", value |-> "alaska"],
      [name |-> "ANA", value |-> "ana"],
      [name |-> "ASIA_MILES", value |-> "asia-miles"],
      [name |-> "DELTA", value |-> "delta"],
      [name |-> "ETIHAD", value |-> "etihad"],
      [name |-> "EXECUTIVE_CLUB", value |-> "executive-club"],
      [name |-> "FINNAIR", value |-> "finnair"],
      [name |-> "FLYING_BLUE", value |-> "flying-blue"],
      [name |-> "HAWAIIAN", value |-> "hawaiian"],
      [name |-> "JETBLUE", value |-> "jetblue"],
      [name |-> "KRISFLYER", value |-> "krisflyer"],
      [name |-> "PRIVILEGE_CLUB", value |-> "privilege-club"],
      [name |-> "QANTAS", value |-> "qantas"],
      [name |-> "SKYWARDS", value |-> "skywards"],
      [name |-> "SOUTHWEST", value |-> "southwest"],
      [name |-> "TURKISH", value |-> "turkish"],
      [name |-> "UNITED", value |-> "united"],
      [name |-> "VIRGIN_ATLANTIC", value |-> "virgin-atlantic"]>>

\* Enum(value): the member with that value, or ValueError
EnumLookup(enum, value) ==
    IF \E i \in DOMAIN enum : enum[i].value = value
    THEN [ok |-> TRUE,
          member |-> enum[CHOOSE i \in DOMAIN enum : enum[i].value = value].name]
    ELSE [ok |-> FALSE, error |-> "ValueError"]

\* member.value
EnumValue(enum, member) ==
    enum[CHOOSE i \in DOMAIN enum : enum[i].name = member].value

\* _CREDIT_CARD_INFO, keyed by the members of CreditCard
CREDIT_CARD_INFO ==
    [CAPITAL_ONE |->
       [name |-> "Capital One (Venture, VentureX, Spark Miles)",
        airlines |-> <<"AEROPLAN", "EXECUTIVE_CLUB", "ASIA_MILES", "SKYWARDS",
                       "ETIHAD", "FINNAIR", "FLYING_BLUE", "QANTAS",
                       "PRIVILEGE_CLUB", "KRISFLYER", "TURKISH">>],
     CHASE |->
       [name |-> "Chase Ultimate Rewards (Sapphire, Freedom, Ink)",
        airlines |-> <<"AEROPLAN", "EXECUTIVE_CLUB", "FLYING_BLUE",
                       "KRISFLYER", "UNITED", "SOUTHWEST", "JETBLUE",
                       "VIRGIN_ATLANTIC">>],
     AMEX |->
       [name |-> "American Express Membership Rewards",
        airlines |-> <<"AEROPLAN", "AEROMEXICO", "ANA", "ASIA_MILES", "DELTA",
                       "SKYWARDS", "ETIHAD", "FINNAIR", "FLYING_BLUE",
                       "HAWAIIAN", "JETBLUE", "QANTAS", "KRISFLYER",
                       "VIRGIN_ATLANTIC">>],
     CITI |->
       [name |-> "Citi ThankYou Rewards (Premier, Prestige, Rewards+)",
        airlines |-> <<"AA", "AEROPLAN", "ASIA_MILES", "FLYING_BLUE",
                       "JETBLUE", "QANTAS", "PRIVILEGE_CLUB", "KRISFLYER",
                       "TURKISH", "VIRGIN_ATLANTIC">>],
     BILT |->
       [name |-> "Bilt Rewards",
        airlines |-> <<"AA", "AEROPLAN", "ALASKA", "EXECUTIVE_CLUB",
                       "ASIA_MILES", "FLYING_BLUE", "HAWAIIAN", "TURKISH",
                       "UNITED", "VIRGIN_ATLANTIC">>]]

\* A reverse table that lacks the entry of Southwest.
SourceToAirlineWithoutSouthwest ==
    [m \in {AirlineSource[i].name : i \in DOMAIN AirlineSource}
            \ {"SOUTHWEST"} |-> "airline"]

\* _SOURCE_TO_AIRLINE, keyed by the members of AirlineSource
SOURCE_TO_AIRLINE ==
    [AA |-> "American Airlines AAdvantage",
     AEROPLAN |-> "Air Canada Aeroplan",
     AEROMEXICO |-> "Aeromexico Club Premier",
     ALASKA |-> "Alaska Airlines Mileage Plan",
     ANA |-> "ANA Mileage Club",
     ASIA_MILES |-> "Cathay Pacific Asia Miles",
     DELTA |-> "Delta SkyMiles",
     ETIHAD |-> "Etihad Guest",
     EXECUTIVE_CLUB |-> "British Airways Executive Club",
     FINNAIR |-> "Finnair Plus",
     FLYING_BLUE |-> "Air France-KLM Flying Blue",
     HAWAIIAN |-> "Hawaiian Airlines HawaiianMiles",
     JETBLUE |-> "JetBlue TrueBlue",
     KRISFLYER |-> "Singapore Airlines KrisFlyer",
     PRIVILEGE_CLUB |-> "Qatar Airways Privilege Club",
     QANTAS |-> "Qantas Frequent Flyer",
     SKYWARDS |-> "Emirates Skywards",
     SOUTHWEST |-> "Southwest Rapid Rewards",
     TURKISH |-> "Turkish Airlines Miles&Smiles",
     UNITED |-> "United MileagePlus",
     VIRGIN_ATLANTIC |-> "Virgin Atlantic Flying Club"]

\* CreditCard.airline_partners
AirlinePartners(card) ==
    LET partners == CREDIT_CARD_INFO[card].airlines
    IN [i \in DOMAIN partners |-> EnumValue(AirlineSource, partners[i])]

\* list_all_credit_cards()
ListAllCreditCards == [i \in DOMAIN CreditCard |-> CreditCard[i].value]

\* get_transfer_partners(credit_card): the list returned, or the ValueError
\* raised, whose message quotes the argument and lists the valid identifiers.
GetTransferPartners(credit_card) ==
    LET card == EnumLookup(CreditCard, Lower(credit_card)) IN
    IF card.ok
    THEN [ok |-> TRUE, val |-> AirlinePartners(card.member)]
    ELSE [ok |-> FALSE,
          error |-> [type |-> "ValueError", card |-> credit_card,
                     available |-> ListAllCreditCards]]

\* get_credit_card_name(credit_card): the display name, or the argument
GetCreditCardName(credit_card) ==
    LET card == EnumLookup(CreditCard, Lower(credit_card)) IN
    IF card.ok
    THEN [found |-> TRUE, name |-> CREDIT_CARD_INFO[card.member].name]
    ELSE [found |-> FALSE, echoed |-> credit_card]

\* get_airline_name(source)
GetAirlineName(source) ==
    LET airline == EnumLookup(AirlineSource, source) IN
    IF airline.ok
    THEN Get(SOURCE_TO_AIRLINE, airline.member, source)
    ELSE source

\* Arguments of the lookups
CardInputs ==
    {<<"c", "h", "a", "s", "e">>,
     <<"C", "h", "a", "s", "e">>,
     <<"C", "H", "A", "S", "E">>,
     <<"a", "m", "e", "x">>,
     <<"A", "M", "E", "X">>,
     <<"c", "a", "p", "i", "t", "a", "l", "-", "o", "n", "e">>,
     <<"C", "a", "p", "i", "t", "a", "l", "-", "O", "n", "e">>,
     <<"c", "i", "t", "i">>,
     <<"b", "i", "l", "t">>,
     <<"B", "I", "L", "T">>,
     <<"c", "h", "a", "s">>,
     <<"v", "i", "s", "a">>,
     <<>>}

SourceInputs ==
    {AirlineSource[i].value : i \in DOMAIN AirlineSource}
      \cup {"lifemiles", "AA", ""}

InitCatalog ==
    /\ RateInit
    /\ RankInit
    /\ RunInit
    /\ PureInit

GetTransferPartnersCall(credit_card) ==
    /\ lookups' = [lookups EXCEPT !.partners =
                     [called |-> TRUE, arg |-> credit_card,
                      result |-> GetTransferPartners(credit_card)]]
    /\ UNCHANGED <<rateVars, stdout, lastInit, rankVars, runVars, lastCpp>>

GetCreditCardNameCall(credit_card) ==
    /\ lookups' = [lookups EXCEPT !.card_name =
                     [called |-> TRUE, arg |-> credit_card,
                      result |-> GetCreditCardName(credit_card)]]
    /\ UNCHANGED <<rateVars, stdout, lastInit, rankVars, runVars, lastCpp>>

GetAirlineNameCall(source) ==
    /\ lookups' = [lookups EXCEPT !.airline_name =
                     [called |-> TRUE, arg |-> source,
                      result |-> GetAirlineName(source)]]
    /\ UNCHANGED <<rateVars, stdout, lastInit, rankVars, runVars, lastCpp>>

ListAllCreditCardsCall ==
    /\ lookups' = [lookups EXCEPT !.all_cards =
                     [called |-> TRUE, result |-> ListAllCreditCards]]
    /\ UNCHANGED <<rateVars, stdout, lastInit, rankVars, runVars, lastCpp>>

NextCatalog ==
    \/ \E credit_card \in CardInputs : GetTransferPartnersCall(credit_card)
    \/ \E credit_card \in CardInputs : GetCreditCardNameCall(credit_card)
    \/ \E source \in SourceInputs : GetAirlineNameCall(source)
    \/ ListAllCreditCardsCall

SpecCatalog == InitCatalog /\ [][NextCatalog]_vars

----------------------------------------------------------------------------
(* main(): one run of the program, from the configuration file to the
   table or to sys.exit *)

\* display_results: search_config.get("max_results", 10)
MaxResultsDefault == 10

\* A raw record of the upstream with an economy bundle.
RunItem(source, miles, taxes_cents, direct, cur) ==
    ("Route" :> [RouteOf EXCEPT !["Source"] = source])
    @@ ("Date" :> 20250601)
    @@ ("TaxesCurrency" :> cur)
    @@ Prefixed("Y", [n \in {"MileageCostRaw", "TotalTaxesRaw", "DirectRaw"}
                        |-> CASE n = "MileageCostRaw" -> miles
                              [] n = "TotalTaxesRaw" -> taxes_cents
                              [] n = "DirectRaw" -> direct])

ItemUsd == RunItem("united", 100, 500, TRUE, "USD")
ItemCad == RunItem("aeroplan", 200, 100, FALSE, "CAD")

\* The "data" array of a response body.
DataLists ==
    {<<>>, <<ItemUsd>>, <<ItemCad>>, <<ItemUsd, ItemCad>>, <<ItemCad, ItemUsd>>}

\* What session.get / raise_for_status / response.json can produce.
SearchResponses ==
    {[raised |-> TRUE, data |-> <<>>]}
      \cup {[raised |-> FALSE, data |-> d] : d \in DataLists}

\* The "search" section: a card that is known, unknown or the empty string,
\* a list of programs that is empty or not, and an optional max_results.
SearchConfigs ==
    {("cabin" :> "economy") @@ c @@ l @@ m :
       c \in Optional("credit_card", {<<"C", "h", "a", "s", "e">>, <<"v", "i", "s", "a">>, <<>>}),
       l \in Optional("sources", {<<>>, <<"united">>}),
       m \in Optional("max_results", {1})}

\* The "output" and "valuation" sections.
OutputConfigs ==
    {<<>>,
     ("output" :> (("nonstop_only" :> TRUE) @@ ("sort_by" :> "cpp"))),
     ("output" :> (("sort_by" :> "cpp") @@ ("show_segments" :> TRUE)))
       @@ ("valuation" :> ("baseline_cash_price" :> 3000000)),
     ("output" :> ("sort_by" :> "miles"))
       @@ ("valuation" :> ("baseline_cash_price" :> 0))}

\* Documents yaml.safe_load can return: complete ones, one without api_key
\* and one without the search section.
RunConfigs ==
    {("api_key" :> "key") @@ ("search" :> sc) @@ o :
       sc \in SearchConfigs, o \in OutputConfigs}
      \cup {("search" :> sc) : sc \in {("cabin" :> "economy")}}
      \cup {("api_key" :> k) : k \in {"key"}}

\* The configuration file: missing, not YAML, or a document.
ConfigFiles ==
    {[kind |-> k, config |-> <<>>] : k \in {"missing", "invalid"}}
      \cup {[kind |-> "yaml", config |-> c] : c \in RunConfigs}

\* An error message on stderr followed by sys.exit(1); an exception that
\* reaches main is reported by its handler and ends the same way.
Fail(message) ==
    /\ stderr' = stderr \cup {message}
    /\ phase' = "exited"
    /\ exitStatus' = "1"

\* main returns: the process ends with status 0.
Return ==
    /\ phase' = "exited"
    /\ exitStatus' = "0"

\* main: FlightFinder(args.config), that is load_config and SeatsAeroClient
LoadConfig(file) ==
    /\ phase = "idle" /\ exitStatus = "running"
    /\ IF file.kind # "yaml"
       THEN Fail("config_error") /\ config' = config
       ELSE IF "api_key" \notin DOMAIN file.config
       THEN Fail("exception") /\ config' = config
       ELSE /\ config' = file.config
            /\ phase' = "loaded"
            /\ UNCHANGED <<stderr, exitStatus>>
    /\ UNCHANGED <<cache, lastCall, calls, liveOk, stdout, lastInit, results,
                   ranked, sources, dataList, requests, table, pureVars>>

\* search(): the choice of the programs to search
SelectSources ==
    /\ phase = "loaded"
    /\ IF "search" \notin DOMAIN config
       THEN Fail("exception") /\ UNCHANGED <<sources, stdout>>
       ELSE LET search_config == config["search"]
                credit_card == Get(search_config, "credit_card", <<>>)
                manual == Get(search_config, "sources", <<>>)
                partners == GetTransferPartners(credit_card)
            IN IF credit_card # <<>>
               THEN IF partners.ok
                    THEN /\ sources' = partners.val
                         /\ stdout' = stdout \cup {"searching"}
                         /\ phase' = "selected"
                         /\ UNCHANGED <<stderr, exitStatus>>
                    ELSE Fail("card_error") /\ UNCHANGED <<sources, stdout>>
               ELSE IF manual # <<>>
               THEN /\ sources' = manual
                    /\ stdout' = stdout \cup {"searching"}
                    /\ phase' = "selected"
                    /\ UNCHANGED <<stderr, exitStatus>>
               ELSE Fail("no_sources_error") /\ UNCHANGED <<sources, stdout>>
    /\ UNCHANGED <<cache, lastCall, calls, liveOk, lastInit, results, config,
                   ranked, dataList, requests, table, pureVars>>

\* A search_flights whose handler reports the failed request and goes on
\* with an empty body.
SearchFlightsWithoutExit ==
    /\ phase = "selected"
    /\ sources # <<>>
    /\ requests' = requests + 1
    /\ \E response \in SearchResponses :
         /\ dataList' = response.data
         /\ stderr' = IF response.raised THEN stderr \cup {"request_error"}
                      ELSE stderr
         /\ IF response.data = <<>>
            THEN stdout' = stdout \cup {"no_flights"} /\ Return
            ELSE phase' = "parsing" /\ UNCHANGED <<stdout, exitStatus>>
    /\ UNCHANGED <<cache, lastCall, calls, liveOk, lastInit, results, config,
                   ranked, sources, table, pureVars>>

\* search(): client.search_flights and the test of data_list
SearchFlights ==
    /\ phase = "selected"
    /\ IF sources = <<>>
       THEN Fail("no_sources_error")
            /\ UNCHANGED <<requests, dataList, stdout>>
       ELSE /\ requests' = requests + 1
            /\ \E response \in SearchResponses :
                 IF response.raised
                 THEN Fail("request_error") /\ UNCHANGED <<dataList, stdout>>
                 ELSE /\ dataList' = response.data
                      /\ IF response.data = <<>>
                         THEN /\ stdout' = stdout \cup {"no_flights"}
                              /\ Return
                              /\ UNCHANGED stderr
                         ELSE /\ phase' = "parsing"
                              /\ UNCHANGED <<stdout, stderr, exitStatus>>
    /\ UNCHANGED <<cache, lastCall, calls, liveOk, lastInit, results, config,
                   ranked, sources, table, pureVars>>

\* search(): one iteration of the loop over data_list
ParseItem ==
    /\ phase = "parsing"
    /\ dataList # <<>>
    /\ FlightResultEffect(Head(dataList), config["search"]["cabin"])
    /\ ranked' = Append(ranked, lastInit'.offer)
    /\ dataList' = Tail(dataList)
    /\ phase' = IF Tail(dataList) = <<>> THEN "searched" ELSE "parsing"
    /\ UNCHANGED <<stdout, results, config, sources, requests, exitStatus,
                   table, pureVars>>

\* display_results: the rows of the table
DisplayRows(rs, cfg) ==
    LET max_results == Get(cfg["search"], "max_results", MaxResultsDefault)
        shown == SubSeq(rs, 1, IF max_results < Len(rs) THEN max_results
                               ELSE Len(rs))
        cash_price == CashPrice(cfg)
    IN [i \in DOMAIN shown |->
          [num |-> i, offer |-> shown[i],
           CPP |-> IF Truthy(cash_price)
                   THEN <<CalculateCpp(shown[i], cash_price)>>
                   ELSE <<>>]]

\* run(): display_results, after which main returns
DisplayResults ==
    LET rows == DisplayRows(ranked, config)
        output_config == Get(config, "output", <<>>)
    IN /\ phase = "sorted"
       /\ table' = rows
       /\ stdout' = stdout \cup {"found"}
                      \cup (IF rows # <<>> THEN {"table"} ELSE {})
                      \cup (IF Get(output_config, "show_segments", FALSE)
                            THEN {"details"} ELSE {})
       /\ Return
       /\ UNCHANGED <<rateVars, lastInit, results, config, ranked, sources,
                      dataList, requests, pureVars>>

InitRun ==
    /\ RateInit
    /\ RankInit
    /\ RunInit
    /\ PureInit

NextRun ==
    \/ \E file \in ConfigFiles : LoadConfig(file)
    \/ SelectSources
    \/ SearchFlights
    \/ ParseItem
    \/ FilterResults
    \/ SortResults
    \/ DisplayResults

SpecRun == InitRun /\ [][NextRun]_vars

----------------------------------------------------------------------------
(* Properties of the rate lookup, checked under Spec *)

\* A step that is one call of get_usd_conversion_rate(currency).
IsLookup(currency) == calls' = calls + 1 /\ lastCall'.currency = currency

\* C2: a lookup whose live fetch fails returns the static fallback rate (0.72
\* for CAD, 1.0 for CHF, which the table does not list), leaves the cache as
\* it was, and so never puts the currency in the cache; the next lookup for
\* the same currency issues the live fetch again.
C2_FailedFetchNotCached ==
    [][\A c \in Currencies \ {"USD"} :
         /\ IsLookup(c) /\ lastCall'.outcome = "fallback" =>
              /\ lastCall'.rate = (IF c = "CAD" THEN 7200 ELSE 10000)
              /\ cache' = cache
              /\ c \notin DOMAIN cache'
         /\ IsLookup(c) /\ lastCall.outcome = "fallback"
              /\ lastCall.currency = c => lastCall'.fetched]_vars

\* Two lookups at least, the latest one a failed fetch for CHF answered with
\* 1.0, and nothing cached by any of them.
C2_Witness ==
    /\ calls >= 2
    /\ lastCall.currency = "CHF"
    /\ lastCall.outcome = "fallback"
    /\ lastCall.rate = RateOne
    /\ "rate_warning" \in stderr
    /\ cache = <<>>

\* C3: a live response without a valid USD rate (missing, zero or negative)
\* is handled as a failed fetch, so the lookup answers with the fallback rate
\* and every rate held in the cache is a strictly positive rate that the live
\* source reported.
C3_InvalidLiveRateIsFailure ==
    /\ \A c \in DOMAIN cache : cache[c] > 0 /\ cache[c] \in LiveRates
    /\ lastCall.outcome = "live" => lastCall.rate > 0

\* C4: a lookup for USD answers 1.0 without a live fetch and changes neither
\* the cache nor stderr, and building a FlightResult whose taxes are in USD
\* (TaxesCurrency USD or absent) makes no lookup at all and stores the amount
\* as it is (cents / 100).
C4_UsdNoSideEffects ==
    [][/\ IsLookup("USD") =>
            /\ lastCall'.rate = 10000
            /\ ~lastCall'.fetched
            /\ cache' = cache
            /\ liveOk' = liveOk
            /\ stderr' = stderr
       /\ (/\ lastInit' # lastInit
           /\ Get(lastInit'.data, "TaxesCurrency", "USD") = "USD") =>
            /\ UNCHANGED rateVars
            /\ lastInit'.offer.total_taxes =
                 Get(lastInit'.data, "YTotalTaxesRaw", 0) * 10000]_vars

\* A USD lookup and a FlightResult with USD taxes of 5.60, both made while the
\* cache holds rates for CAD and CHF.
C4_Witness ==
    /\ lastCall.currency = "USD"
    /\ lastCall.rate = RateOne
    /\ DOMAIN cache = {"CAD", "CHF"}
    /\ lastInit.done
    /\ Get(lastInit.data, "TaxesCurrency", "") = "USD"
    /\ lastInit.offer.total_taxes = 5600000

\* C5: a successful live fetch stores its rate under the currency code; an
\* entry of the cache is never changed or removed; a lookup for a cached
\* currency returns the cached rate without a live fetch; so no currency sees
\* more than one successful live fetch.
C5_CacheEntryIsPermanent ==
    [][/\ \A c \in DOMAIN cache :
            /\ c \in DOMAIN cache'
            /\ cache'[c] = cache[c]
            /\ IsLookup(c) => lastCall'.rate = cache[c] /\ ~lastCall'.fetched
       /\ \A c \in Currencies :
            /\ IsLookup(c) /\ lastCall'.outcome = "live" =>
                 c \in DOMAIN cache' /\ cache'[c] = lastCall'.rate
            /\ liveOk'[c] <= 1]_vars

\* A lookup for CAD answered from the cache, after the one live fetch for
\* CAD that succeeded.
C5_Witness ==
    /\ calls >= 3
    /\ lastCall.currency = "CAD"
    /\ lastCall.outcome = "hit"
    /\ lastCall.rate = cache["CAD"]
    /\ liveOk["CAD"] = 1

----------------------------------------------------------------------------
(* Properties of FlightResult.__init__, checked under SpecNormalize *)

\* The rate the latest FlightResult applied to its taxes: 1.0 for USD, else
\* what the lookup it made returned.
RateUsed ==
    IF Get(lastInit.data, "TaxesCurrency", "USD") = "USD" THEN RateOne
    ELSE lastCall.rate

\* C6: a flat detailed record (MileageCost, TotalTaxes, Stops, ... and no
\* cabin-prefixed field) yields an offer with miles_cost = MileageCost, taxes
\* = TotalTaxes converted to USD with no division by 100 (both are held in
\* hundredths here), and stops = Stops.
C6_FlatShapeNormalized ==
    lastInit.done /\ IsFlat(lastInit.data) =>
        /\ lastInit.offer.miles_cost = lastInit.data["MileageCost"]
        /\ lastInit.offer.total_taxes = lastInit.data["TotalTaxes"] * RateUsed
        /\ lastInit.offer.stops = lastInit.data["Stops"]

\* The prefix the four cabins are said to select.
ClaimedPrefix(cabin) ==
    CASE cabin = "economy" -> "Y"
      [] cabin = "premium" -> "W"
      [] cabin = "business" -> "J"
      [] cabin = "first" -> "F"

\* The fields of a record outside the cabin prefix p.
OtherPrefixKeys(data, p) ==
    {q \o n : q \in {"Y", "W", "J", "F"} \ {p}, n \in PrefixNames}

\* Two records that differ under the prefixes other than p at most.
AgreeUnder(d1, d2, p) ==
    /\ DOMAIN d1 \ OtherPrefixKeys(d1, p) = DOMAIN d2 \ OtherPrefixKeys(d2, p)
    /\ \A k \in DOMAIN d1 \ OtherPrefixKeys(d1, p) : d1[k] = d2[k]

\* C7: for a cabin-prefixed record and one of the four cabins, miles cost,
\* taxes, seats, carriers and the direct flag are read under the prefix of
\* that cabin (economy Y, premium W, business J, first F), and every record
\* that differs from it under the other prefixes only normalizes to the same
\* miles_cost, taxes, seats and stops.
C7_PrefixFixedByCabin ==
    (/\ lastInit.done
     /\ ~IsFlat(lastInit.data)
     /\ lastInit.cabin \in {"economy", "premium", "business", "first"}) =>
        LET p == ClaimedPrefix(lastInit.cabin)
            d == lastInit.data
            o == lastInit.offer
        IN /\ o.miles_cost = Get(d, p \o "MileageCostRaw", 0)
           /\ o.total_taxes = Get(d, p \o "TotalTaxesRaw", 0) * RateUsed
           /\ o.remaining_seats = Get(d, p \o "RemainingSeatsRaw", 0)
           /\ o.carriers = Get(d, p \o "AirlinesRaw", "")
           /\ o.stops = (IF Get(d, p \o "DirectRaw", FALSE) THEN 0 ELSE 1)
           /\ \A d2 \in RawRecords :
                AgreeUnder(d, d2, p) =>
                  LET o2 == NewFlightResult(d2, lastInit.cabin, RateUsed)
                  IN /\ o2.miles_cost = o.miles_cost
                     /\ o2.total_taxes = o.total_taxes
                     /\ o2.remaining_seats = o.remaining_seats
                     /\ o2.stops = o.stops

\* A business FlightResult built from a record whose J fields (35000 miles,
\* 120.00 in CAD, not direct) differ from its Y fields (60000 miles, direct).
C7_Witness ==
    /\ lastInit.done
    /\ lastInit.cabin = "business"
    /\ Get(lastInit.data, "YMileageCostRaw", 0) = 60000
    /\ Get(lastInit.data, "JMileageCostRaw", 0) = 35000
    /\ Get(lastInit.data, "TaxesCurrency", "USD") = "CAD"
    /\ lastInit.offer.miles_cost = 35000
    /\ lastInit.offer.total_taxes = 12000 * 7200
    /\ lastInit.offer.remaining_seats = 4
    /\ lastInit.offer.stops = 1

----------------------------------------------------------------------------
(* Properties of filter_results and sort_results, checked under SpecRank *)

\* output.sort_by and output.nonstop_only as configured.
SortBy == Get(Get(config, "output", <<>>), "sort_by", "total_cost")
NonstopOnly == Get(Get(config, "output", <<>>), "nonstop_only", FALSE)

\* s and t hold the same offers, each as many times.
SameOffers(s, t) ==
    /\ Len(s) = Len(t)
    /\ \A x \in OfferPool :
         Cardinality({i \in DOMAIN s : s[i] = x})
           = Cardinality({i \in DOMAIN t : t[i] = x})

\* miles_cost / 100 + taxes_amount_usd, in millionths of USD.
ClaimedTotal(x) == x.miles_cost * 10000 + x.total_taxes

\* The list in non-decreasing order of total, equal totals in input order.
StableByTotal(in, out) ==
    /\ SameOffers(in, out)
    /\ \A i \in 1..(Len(out) - 1) : ClaimedTotal(out[i]) <= ClaimedTotal(out[i + 1])
    /\ \A x \in OfferPool :
         SelectSeq(out, LAMBDA y : ClaimedTotal(y) = ClaimedTotal(x))
           = SelectSeq(in, LAMBDA y : ClaimedTotal(y) = ClaimedTotal(x))

\* C1: sorting by cpp when no baseline cash price is configured returns the
\* offers in the order that sorting the same list by total_cost returns.
C1_CppWithoutCashIsTotalCost ==
    (/\ phase = "sorted"
     /\ SortBy = "cpp"
     /\ "baseline_cash_price" \notin DOMAIN Get(config, "valuation", <<>>)) =>
        /\ ranked = SortResultsOp(results,
                      ("output" :> ("sort_by" :> "total_cost")) @@ config).out
        /\ StableByTotal(results, ranked)

\* The k-th offer of s with no stops.
KthNonstop(s, k) ==
    s[CHOOSE i \in DOMAIN s :
        /\ s[i].stops = 0
        /\ Cardinality({j \in 1..i : s[j].stops = 0}) = k]

\* C8: with nonstop_only set, the filter returns the offers with stop count
\* 0 (those built from a true direct flag), all of them, in input order, and
\* no other offer; with nonstop_only false or absent it returns its input.
C8_NonstopFilter ==
    phase = "filtered" =>
        IF NonstopOnly
        THEN /\ \A i \in DOMAIN ranked : ranked[i].stops = 0
             /\ Len(ranked) =
                  Cardinality({i \in DOMAIN results : results[i].stops = 0})
             /\ \A k \in DOMAIN ranked : ranked[k] = KthNonstop(results, k)
        ELSE ranked = results

\* Three offers filtered down to two different nonstop ones.
C8_Witness ==
    /\ phase = "filtered"
    /\ NonstopOnly
    /\ Len(results) = 3
    /\ results[2].stops = 1
    /\ Len(ranked) = 2
    /\ ranked[1] # ranked[2]

\* C9: sorting by total_cost returns a permutation of its input in
\* non-decreasing order of miles_cost / 100 + taxes_amount_usd, offers with
\* equal totals in the order they had in the input.
C9_TotalCostStable ==
    phase = "sorted" /\ SortBy = "total_cost" => StableByTotal(results, ranked)

\* Three offers sorted by total_cost into another order, two different ones
\* of the same total next to each other.
C9_Witness ==
    /\ phase = "sorted"
    /\ SortBy = "total_cost"
    /\ Len(ranked) = 3
    /\ ranked # results
    /\ \E i \in 1..2 :
         /\ ranked[i] # ranked[i + 1]
         /\ ClaimedTotal(ranked[i]) = ClaimedTotal(ranked[i + 1])

\* CPP of an offer for a cash price, in hundredths of a cent, where it is
\* available.
ClaimedCpp(x, usd) == RoundHalfEven(usd - x.total_taxes, x.miles_cost * 100)

\* C10: sorting by cpp whenever a baseline cash price is supplied returns a
\* permutation of its input in which the CPP of every offer is greater than
\* or equal to the CPP of the next one (stated for adjacent offers that both
\* have a CPP).
C10_CppDescendingWhenCashSupplied ==
    (/\ phase = "sorted"
     /\ SortBy = "cpp"
     /\ "baseline_cash_price" \in DOMAIN Get(config, "valuation", <<>>)) =>
        LET usd == config["valuation"]["baseline_cash_price"]
        IN /\ SameOffers(results, ranked)
           /\ \A i \in 1..(Len(ranked) - 1) :
                ranked[i].miles_cost # 0 /\ ranked[i + 1].miles_cost # 0 =>
                  ClaimedCpp(ranked[i], usd) >= ClaimedCpp(ranked[i + 1], usd)

\* C11: sorting by miles returns a permutation of its input in
\* non-decreasing order of miles_cost, and offers of equal miles_cost in
\* non-decreasing order of taxes.
C11_MilesThenTaxes ==
    phase = "sorted" /\ SortBy = "miles" =>
        /\ SameOffers(results, ranked)
        /\ \A i \in 1..(Len(ranked) - 1) :
             /\ ranked[i].miles_cost <= ranked[i + 1].miles_cost
             /\ ranked[i].miles_cost = ranked[i + 1].miles_cost =>
                  ranked[i].total_taxes <= ranked[i + 1].total_taxes

\* Three offers sorted by miles into another order, two of them with the
\* same miles and different taxes, the dearer one first in the input.
C11_Witness ==
    /\ phase = "sorted"
    /\ SortBy = "miles"
    /\ Len(ranked) = 3
    /\ ranked # results
    /\ \E i, j \in 1..3 :
         /\ i < j
         /\ results[i].miles_cost = results[j].miles_cost
         /\ results[i].total_taxes > results[j].total_taxes

----------------------------------------------------------------------------
(* Properties of calculate_cpp, checked under SpecCpp *)

----------------------------------------------------------------------------
(* Properties of the catalog, checked under SpecCatalog *)

\* text is the identifier of the i-th card, up to letter case.
MatchesCard(text, i) ==
    /\ Len(text) = Len(CreditCard[i].value)
    /\ \A k \in DOMAIN text :
         \/ text[k] = CreditCard[i].value[k]
         \/ \E l \in DOMAIN UpperLetters :
              /\ text[k] = UpperLetters[l]
              /\ CreditCard[i].value[k] = LowerLetters[l]

NamesCard(text) == \E i \in DOMAIN CreditCard : MatchesCard(text, i)

\* C13: get_transfer_partners matches its argument against the card
\* identifiers without regard to letter case; for any other argument it
\* raises an unknown-card error that quotes the argument and lists all five
\* valid identifiers, and never returns a list.
C13_UnknownCardIsError ==
    lookups.partners.called =>
        LET arg == lookups.partners.arg
            r == lookups.partners.result
        IN /\ r.ok <=> NamesCard(arg)
           /\ r.ok =>
                /\ r.val # <<>>
                /\ \A i \in DOMAIN CreditCard :
                     MatchesCard(arg, i) =>
                       r.val = AirlinePartners(CreditCard[i].name)
           /\ ~r.ok =>
                /\ r.error.type = "ValueError"
                /\ r.error.card = arg
                /\ Len(r.error.available) = Len(CreditCard)
                /\ \A i \in DOMAIN CreditCard :
                     r.error.available[i] = CreditCard[i].value

\* get_transfer_partners("CHASE") returns the partners of chase.
C13_Witness ==
    /\ lookups.partners.called
    /\ lookups.partners.arg = <<"C", "H", "A", "S", "E">>
    /\ lookups.partners.result.ok
    /\ lookups.partners.result.val[1] = "aeroplan"
    /\ Len(lookups.partners.result.val) = 8

\* C14: every card of the catalog has at least one transfer partner, and
\* every source identifier in a partner list is the value of a member of
\* AirlineSource that has an entry in the reverse table.
C14_PartnersHaveNames ==
    /\ \A i \in DOMAIN CreditCard :
         LET partners == AirlinePartners(CreditCard[i].name) IN
         /\ partners # <<>>
         /\ \A k \in DOMAIN partners :
              \E j \in DOMAIN AirlineSource :
                /\ AirlineSource[j].value = partners[k]
                /\ AirlineSource[j].name \in DOMAIN SOURCE_TO_AIRLINE
    /\ lookups.partners.called /\ lookups.partners.result.ok =>
         /\ lookups.partners.result.val # <<>>
         /\ \A k \in DOMAIN lookups.partners.result.val :
              \E j \in DOMAIN AirlineSource :
                /\ AirlineSource[j].value = lookups.partners.result.val[k]
                /\ AirlineSource[j].name \in DOMAIN SOURCE_TO_AIRLINE

\* The partners of chase were returned and the name of one of them,
\* southwest, was looked up in the reverse table.
C14_Witness ==
    /\ lookups.partners.called
    /\ lookups.partners.result.ok
    /\ \E k \in DOMAIN lookups.partners.result.val :
         lookups.partners.result.val[k] = "southwest"
    /\ lookups.airline_name.called
    /\ lookups.airline_name.arg = "southwest"
    /\ lookups.airline_name.result = "Southwest Rapid Rewards"

----------------------------------------------------------------------------
(* Properties of the output channels *)

Warnings == {"rate_warning", "cpp_warning"}

\* C15: a degraded-mode warning (a rate that could not be fetched, a CPP
\* sort without a cash price) is written to the diagnostic channel and
\* never to normal output.
C15_WarningsOnlyOnStderr == stdout \cap Warnings = {}

----------------------------------------------------------------------------
(* Properties of a run, checked under SpecRun *)

\* The messages of the fatal errors the program reports itself.
FatalErrors ==
    {"config_error", "card_error", "no_sources_error", "request_error"}

\* The configuration names a card that is not in the catalog.
UnknownCard ==
    /\ "search" \in DOMAIN config
    /\ Get(config["search"], "credit_card", <<>>) # <<>>
    /\ ~NamesCard(Get(config["search"], "credit_card", <<>>))

\* The configuration names neither a card nor any program.
NoSources ==
    /\ "search" \in DOMAIN config
    /\ Get(config["search"], "credit_card", <<>>) = <<>>
    /\ Get(config["search"], "sources", <<>>) = <<>>

\* C16: a run that hits a fatal error (configuration unreadable or not
\* parsable, unknown card, no programs, failed search request) has ended
\* with status 1 and has displayed no row of the table; with an unknown card
\* or without programs it ends before any search request is sent.
C16_FatalErrorShowsNoRow ==
    /\ exitStatus # "running" <=> phase = "exited"
    /\ stderr \cap FatalErrors # {} => exitStatus = "1"
    /\ exitStatus = "1" => table = <<>> /\ "table" \notin stdout
    /\ {"card_error", "no_sources_error"} \cap stderr # {} => requests = 0
    /\ phase \notin {"idle", "loaded"} /\ (UnknownCard \/ NoSources) =>
         /\ exitStatus = "1"
         /\ requests = 0
         /\ stderr \cap {"card_error", "no_sources_error"} # {}

\* The search request of a run with the partners of a known card failed.
C16_Witness ==
    /\ exitStatus = "1"
    /\ "request_error" \in stderr
    /\ requests = 1
    /\ Len(sources) = 8
    /\ table = <<>>

====
